---- MODULE Spec2Model ----
(***************************************************************************)
(* Model of pipeline.analysis.network.NetworkAnalyser: the founder graph   *)
(* built by build_graph and the queries answered over it.                  *)
(*                                                                         *)
(* Text (company ids, company names, institution and employer names) is a  *)
(* sequence of one-character strings, so that str.strip() is computed.     *)
(* Python dicts, Counters and defaultdicts keep insertion order: they are  *)
(* sequences of <<key, value>> pairs.  Edge weights are multiples of 0.5   *)
(* in the source (3.0, 1.0, 1.5); the model counts them in half units      *)
(* (6, 2, 3), which keeps every sum exact.                                 *)
(***************************************************************************)
EXTENDS Integers, Sequences, FiniteSets, TLC

VARIABLES
    founders,   \* self.founders: the Founder records, in dict order
    companies,  \* self.companies: the Company records, in dict order
    hashOrder,  \* iteration order this process gives a set of founder ids
    graph,      \* self.graph: [nodes, adj]
    edges,      \* self.edges: list of NetworkEdge
    builds,     \* number of build_graph calls made so far
    result,     \* the last query: [op, arg, value returned, raised an exception,
                \* builds: how many times the graph had been built when it ran]
    req,        \* TracxnClient._request: the call under way and how it ended
    pag         \* TracxnClient._paginate: the call under way and how it ended

vars == <<founders, companies, hashOrder, graph, edges, builds, result, req, pag>>

----------------------------------------------------------------------------
(* Bounds of the model *)

MaxRecs == 2
MaxBuilds == 2
MaxTopN == 3
MaxMinSize == 3
MaxInstitutions == 11

----------------------------------------------------------------------------
(* Text *)

WS == {" ", "\t"}
\* the one-character string U+2014 (em dash), the "unknown" placeholder
EmDash == <<"em-dash">>

RECURSIVE LStrip(_)
LStrip(s) == IF s # <<>> /\ Head(s) \in WS THEN LStrip(Tail(s)) ELSE s

RECURSIVE RStrip(_)
RStrip(s) ==
    IF s # <<>> /\ s[Len(s)] \in WS THEN RStrip(SubSeq(s, 1, Len(s) - 1)) ELSE s

Strip(s) == RStrip(LStrip(s))

----------------------------------------------------------------------------
(* Sequences and insertion-ordered dicts *)

Range(s) == {s[i] : i \in DOMAIN s}

Take(s, n) == SubSeq(s, 1, IF n < Len(s) THEN n ELSE Len(s))

RECURSIVE SeqsUpTo(_, _)
SeqsUpTo(S, n) ==
    IF n = 0 THEN {<<>>}
    ELSE LET shorter == SeqsUpTo(S, n - 1)
         IN  shorter \cup {Append(s, x) : s \in {t \in shorter : Len(t) = n - 1}, x \in S}

Perms(S) == {p \in [1..Cardinality(S) -> S] : Range(p) = S}

RECURSIVE SumSeq(_)
SumSeq(s) == IF s = <<>> THEN 0 ELSE Head(s) + SumSeq(Tail(s))

Keys(d) == {d[i][1] : i \in DOMAIN d}

\* TRUE, once x has been evaluated: a loop asks this of the value it carries
\* before its next round, so that no round is left pending inside the next
Evaluated(x) == x = x

IndexOf(d, k) == CHOOSE i \in DOMAIN d : d[i][1] = k

\* defaultdict(list): d[k].append(v)
ListAppend(d, k, v) ==
    IF k \in Keys(d)
    THEN [d EXCEPT ![IndexOf(d, k)] = <<k, Append(@[2], v)>>]
    ELSE Append(d, <<k, <<v>>>>)

\* mutant of CounterInc: a new key starts at 2
CounterInc_OffByOne(c, k) ==
    IF k \in Keys(c)
    THEN [c EXCEPT ![IndexOf(c, k)] = <<k, @[2] + 1>>]
    ELSE Append(c, <<k, 2>>)

\* Counter: c[k] += 1
CounterInc(c, k) ==
    IF k \in Keys(c)
    THEN [c EXCEPT ![IndexOf(c, k)] = <<k, @[2] + 1>>]
    ELSE Append(c, <<k, 1>>)

----------------------------------------------------------------------------
(* Entity store *)

FounderIds == {"f1", "f2", "f3", "f4"}

\* self.companies.get(cid)
HasCompany(cid) == \E i \in DOMAIN companies : companies[i].id = cid

\* mutant of CompanyName: an unknown id has no label
CompanyName_Blank(cid) ==
    IF HasCompany(cid)
    THEN companies[CHOOSE i \in DOMAIN companies : companies[i].id = cid].name
    ELSE <<>>
\* c.name if c else comp_id; self.companies.get(cid, Company(id=cid, name=cid)).name
CompanyName(cid) ==
    IF HasCompany(cid)
    THEN companies[CHOOSE i \in DOMAIN companies : companies[i].id = cid].name
    ELSE cid

\* mutant of SetOrder: the ids as listed, repeats included
SetOrder_Listed(fids) == fids
\* list(set(fids)): the distinct ids, in the order this process iterates a set
SetOrder(fids) == SelectSeq(hashOrder, LAMBDA x : x \in Range(fids))

----------------------------------------------------------------------------
(* networkx.Graph: nodes in insertion order, one attribute record per       *)
(* unordered pair {a, b}; {a} is the key of a self-loop on a.               *)

CoFounderWeight == 6
SameCollegeWeight == 2
SameEmployerWeight == 3

EmptyGraph == [nodes |-> <<>>, adj |-> <<>>]

HasEdge(g, a, b) == {a, b} \in DOMAIN g.adj

\* Graph.add_node(n): a node already present keeps its place
AddNode(g, n) ==
    IF n \in Range(g.nodes) THEN g ELSE [g EXCEPT !.nodes = Append(@, n)]

\* Graph.add_edge(a, b, weight=w, rel=r, ctx=c): creates the edge, or updates
\* the attributes of the edge that is there
AddEdge(g, a, b, w, r, c) ==
    [g EXCEPT !.adj =
        [k \in DOMAIN g.adj \cup {{a, b}} |->
            IF k = {a, b} THEN [weight |-> w, rel |-> r, ctx |-> c] ELSE g.adj[k]]]

\* mutant of AddWeight: the weight is assigned, not added
AddWeight_Assign(g, a, b, w) == [g EXCEPT !.adj[{a, b}].weight = w]

\* graph[a][b]["weight"] += w
AddWeight(g, a, b, w) == [g EXCEPT !.adj[{a, b}].weight = @ + w]

----------------------------------------------------------------------------
(* build_graph *)

\* mutant of PairsOf: only neighbours in the list are paired
PairsOf_Adjacent(s) == [j \in 1..(Len(s) - 1) |-> <<s[j], s[j + 1]>>]
\* for i, a in enumerate(fids): for b in fids[i + 1:]
RECURSIVE PairsOf(_)
PairsOf(s) ==
    IF Len(s) < 2 THEN <<>>
    ELSE [j \in 1..(Len(s) - 1) |-> <<s[1], s[j + 1]>>] \o PairsOf(Tail(s))

\* for k in keys: d[k].append(fid)
RECURSIVE AppendAll(_, _, _)
AppendAll(d, keys, fid) ==
    IF keys = <<>> \/ ~Evaluated(d) THEN d
    ELSE AppendAll(ListAppend(d, Head(keys), fid), Tail(keys), fid)

\* for fid, f in self.founders.items(): for k in keysOf[f]: d[k].append(fid)
RECURSIVE GroupFounders(_, _, _)
GroupFounders(d, keysOf, i) ==
    IF i > Len(founders) THEN d
    ELSE GroupFounders(AppendAll(d, keysOf[i], founders[i].id), keysOf, i + 1)

StripAll(s) == [j \in DOMAIN s |-> Strip(s[j])]

\* inst = ed.institution.strip(); if inst
InstitutionKeys(f) == SelectSeq(StripAll(f.education), LAMBDA x : x # <<>>)

\* emp = w.company.strip(); if emp and emp != EmDash
EmployerKeys(f) == SelectSeq(StripAll(f.work_history), LAMBDA x : x # <<>> /\ x # EmDash)

company_founders == GroupFounders(<<>>, [i \in DOMAIN founders |-> founders[i].companies], 1)

institution_map == GroupFounders(<<>>, [i \in DOMAIN founders |-> InstitutionKeys(founders[i])], 1)

employer_map == GroupFounders(<<>>, [i \in DOMAIN founders |-> EmployerKeys(founders[i])], 1)

\* the NetworkEdge records one group appends, in order
GroupEdges(fids, rel, w, context) ==
    LET ps == PairsOf(fids)
    IN  [j \in DOMAIN ps |->
            [source_id |-> ps[j][1], target_id |-> ps[j][2],
             relationship |-> rel, weight |-> w, context |-> context]]

\* rule 1, one company: every pair sets the edge's attributes
RECURSIVE CoFounderPairs(_, _, _)
CoFounderPairs(g, ps, cid) ==
    IF ps = <<>> \/ ~Evaluated(g) THEN g
    ELSE CoFounderPairs(
            AddEdge(g, Head(ps)[1], Head(ps)[2], CoFounderWeight, "co_founder", cid),
            Tail(ps), cid)

\* rules 2 and 3, one group: has_edge ? weight += w : add_edge
RECURSIVE SharedPairs(_, _, _, _, _)
SharedPairs(g, ps, w, rel, key) ==
    IF ps = <<>> \/ ~Evaluated(g) THEN g
    ELSE LET a == Head(ps)[1]
             b == Head(ps)[2]
         IN  SharedPairs(
                IF HasEdge(g, a, b) THEN AddWeight(g, a, b, w)
                ELSE AddEdge(g, a, b, w, rel, key),
                Tail(ps), w, rel, key)

\* for cid, fids in company_founders.items()
RECURSIVE CoFounderEdges(_, _)
CoFounderEdges(st, groups) ==
    IF groups = <<>> \/ ~Evaluated(st) THEN st
    ELSE LET cid == Head(groups)[1]
             fids == Head(groups)[2]
         IN  CoFounderEdges(
                [g |-> CoFounderPairs(st.g, PairsOf(fids), cid),
                 e |-> st.e \o GroupEdges(fids, "co_founder", CoFounderWeight, CompanyName(cid))],
                Tail(groups))

\* for inst, fids in institution_map.items()  /  for emp, fids in employer_map.items()
RECURSIVE SharedEdges(_, _, _, _)
SharedEdges(st, groups, w, rel) ==
    IF groups = <<>> \/ ~Evaluated(st) THEN st
    ELSE LET key == Head(groups)[1]
             unique == SetOrder(Head(groups)[2])
         IN  SharedEdges(
                [g |-> SharedPairs(st.g, PairsOf(unique), w, rel, key),
                 e |-> st.e \o GroupEdges(unique, rel, w, key)],
                Tail(groups), w, rel)

RECURSIVE AddNodes(_, _)
AddNodes(g, i) ==
    IF i > Len(founders) THEN g ELSE AddNodes(AddNode(g, founders[i].id), i + 1)

BuildGraph(g, e) ==
    LET s0 == [g |-> AddNodes(g, 1), e |-> e]
        s1 == CoFounderEdges(s0, company_founders)
        s2 == SharedEdges(s1, institution_map, SameCollegeWeight, "same_college")
    IN  SharedEdges(s2, employer_map, SameEmployerWeight, "same_employer")

Build ==
    /\ builds < MaxBuilds
    /\ LET st == BuildGraph(graph, edges)
       IN  graph' = st.g /\ edges' = st.e
    /\ builds' = builds + 1
    /\ UNCHANGED <<req, pag, founders, companies, hashOrder, result>>

----------------------------------------------------------------------------
(* education_hubs, employer_pipelines *)

\* for k in keys: counter[k] += 1
RECURSIVE CountAll(_, _)
CountAll(c, keys) ==
    IF keys = <<>> \/ ~Evaluated(c) THEN c
    ELSE CountAll(CounterInc(c, Head(keys)), Tail(keys))

\* for f in self.founders.values(): for k in keysOf[f]: counter[k] += 1
RECURSIVE CountFounders(_, _, _)
CountFounders(c, keysOf, i) ==
    IF i > Len(founders) THEN c
    ELSE CountFounders(CountAll(c, keysOf[i]), keysOf, i + 1)

\* mutant of InsertByCount: x goes in front of the entries of equal count
RECURSIVE InsertByCount_Unstable(_, _)
InsertByCount_Unstable(s, x) ==
    IF s = <<>> THEN <<x>>
    ELSE IF Head(s)[2] > x[2] THEN <<Head(s)>> \o InsertByCount_Unstable(Tail(s), x)
    ELSE <<x>> \o s

\* place x behind every entry whose count is at least x's count
RECURSIVE InsertByCount(_, _)
InsertByCount(s, x) ==
    IF s = <<>> THEN <<x>>
    ELSE IF Head(s)[2] >= x[2] THEN <<Head(s)>> \o InsertByCount(Tail(s), x)
    ELSE <<x>> \o s

\* sorted(items, key=itemgetter(1), reverse=True): stable, largest count first
RECURSIVE SortByCount(_)
SortByCount(items) ==
    IF items = <<>> THEN <<>>
    ELSE InsertByCount(SortByCount(SubSeq(items, 1, Len(items) - 1)), items[Len(items)])

\* Counter.most_common(n) = heapq.nlargest(n, items, key=count)
MostCommon(c, n) == IF n <= 0 THEN <<>> ELSE Take(SortByCount(c), n)

education_counter ==
    CountFounders(<<>>, [i \in DOMAIN founders |-> InstitutionKeys(founders[i])], 1)

employer_counter ==
    CountFounders(<<>>, [i \in DOMAIN founders |-> EmployerKeys(founders[i])], 1)

education_hubs(top_n) ==
    LET mc == MostCommon(education_counter, top_n)
    IN  [j \in DOMAIN mc |-> [institution |-> mc[j][1], founder_count |-> mc[j][2]]]

employer_pipelines(top_n) ==
    LET mc == MostCommon(employer_counter, top_n)
    IN  [j \in DOMAIN mc |-> [employer |-> mc[j][1], founder_count |-> mc[j][2]]]

TopNs == (0 - 1)..MaxTopN

EducationHubs ==
    /\ \E n \in TopNs :
          result' = [op |-> "education_hubs", arg |-> n, value |-> education_hubs(n),
                     raised |-> FALSE, builds |-> builds]
    /\ UNCHANGED <<req, pag, founders, companies, hashOrder, graph, edges, builds>>

EmployerPipelines ==
    /\ \E n \in TopNs :
          result' = [op |-> "employer_pipelines", arg |-> n, value |-> employer_pipelines(n),
                     raised |-> FALSE, builds |-> builds]
    /\ UNCHANGED <<req, pag, founders, companies, hashOrder, graph, edges, builds>>

----------------------------------------------------------------------------
(* founder_to_company_flow *)

\* employers = {w.company.strip() for w in f.work_history if w.company.strip() != EmDash}
FlowEmployers(f) == {Strip(x) : x \in Range(f.work_history)} \ {EmDash}

\* founded = set(f.companies)
Founded(f) == Range(f.companies)

\* for comp_id in founded: flows[(emp, comp_name)].append(f.name)
RECURSIVE FlowCompanies(_, _, _, _)
FlowCompanies(d, emp, cids, name) ==
    IF cids = <<>> THEN d
    ELSE FlowCompanies(ListAppend(d, <<emp, CompanyName(Head(cids))>>, name), emp, Tail(cids), name)

\* for emp in employers: for comp_id in founded: ...
RECURSIVE FlowEmployersLoop(_, _, _, _)
FlowEmployersLoop(d, emps, cids, name) ==
    IF emps = <<>> THEN d
    ELSE FlowEmployersLoop(FlowCompanies(d, Head(emps), cids, name), Tail(emps), cids, name)

\* The flows dicts the loop over the founders can leave: each founder's two
\* sets are iterated in an order the hash seed and the insertion history
\* decide, so every order of each set is a possible outcome.
RECURSIVE FlowDicts(_, _)
FlowDicts(ds, i) ==
    IF i > Len(founders) THEN ds
    ELSE LET f == founders[i]
         IN  FlowDicts(
                {FlowEmployersLoop(d, emps, cids, f.name) :
                    d \in ds, emps \in Perms(FlowEmployers(f)), cids \in Perms(Founded(f))},
                i + 1)

\* the entries with len(names) >= 2, in dict order
FlowResults(d) ==
    LET kept == SelectSeq(d, LAMBDA kv : Len(kv[2]) >= 2)
    IN  [j \in DOMAIN kept |->
            [from_employer |-> kept[j][1][1], to_company |-> kept[j][1][2],
             founders |-> kept[j][2], count |-> Len(kept[j][2])]]

\* place r behind every entry whose count is at least r's count
RECURSIVE InsertFlow(_, _)
InsertFlow(s, r) ==
    IF s = <<>> THEN <<r>>
    ELSE IF Head(s).count >= r.count THEN <<Head(s)>> \o InsertFlow(Tail(s), r)
    ELSE <<r>> \o s

\* sorted(results, key=lambda r: r["count"], reverse=True)
RECURSIVE SortFlows(_)
SortFlows(rs) ==
    IF rs = <<>> THEN <<>>
    ELSE InsertFlow(SortFlows(SubSeq(rs, 1, Len(rs) - 1)), rs[Len(rs)])

founder_to_company_flow == {SortFlows(FlowResults(d)) : d \in FlowDicts({<<>>}, 1)}

FounderToCompanyFlow ==
    /\ \E v \in founder_to_company_flow :
          result' = [op |-> "founder_to_company_flow", arg |-> 0, value |-> v, raised |-> FALSE, builds |-> builds]
    /\ UNCHANGED <<req, pag, founders, companies, hashOrder, graph, edges, builds>>

----------------------------------------------------------------------------
(* centrality_rankings *)

\* exact fractions <<numerator, denominator>>
RatAdd(x, y) == <<x[1] * y[2] + y[1] * x[2], x[2] * y[2]>>

RatLeq(x, y) == x[1] * y[2] <= y[1] * x[2]

RECURSIVE RatSum(_)
RatSum(s) == IF s = <<>> THEN <<0, 1>> ELSE RatAdd(Head(s), RatSum(Tail(s)))

RECURSIVE SetToSeq(_)
SetToSeq(S) ==
    IF S = {} THEN <<>>
    ELSE LET x == CHOOSE x \in S : TRUE IN <<x>> \o SetToSeq(S \ {x})

\* a / b rounded to the nearest integer (a >= 0, b > 0)
RoundDiv(a, b) == (2 * a + b) \div (2 * b)

Neighbors(g, a) == {b \in Range(g.nodes) \ {a} : HasEdge(g, a, b)}

\* the simple paths of g that extend p to end at t
RECURSIVE Extend(_, _, _)
Extend(g, p, t) ==
    IF p[Len(p)] = t THEN {p}
    ELSE UNION {Extend(g, Append(p, x), t) : x \in Neighbors(g, p[Len(p)]) \ Range(p)}

\* the simple paths of g from s to t
Paths(g, s, t) == Extend(g, <<s>>, t)

\* weight="weight": the length of a path is the sum of its edges' weights
PathLength(g, p) == SumSeq([i \in 1..(Len(p) - 1) |-> g.adj[{p[i], p[i + 1]}].weight])

ShortestPaths(g, s, t) ==
    LET ps == Paths(g, s, t)
    IN  {p \in ps : \A q \in ps : PathLength(g, p) <= PathLength(g, q)}

Interior(p) == {p[i] : i \in 2..(Len(p) - 1)}

\* the pairs {s, t} of nodes other than v
OtherPairs(g, v) == {P \in SUBSET (Range(g.nodes) \ {v}) : Cardinality(P) = 2}

\* of the shortest paths between the two nodes of P, the fraction through v;
\* nothing when no path joins them
Through(g, v, P) ==
    LET s == CHOOSE x \in P : TRUE
        t == CHOOSE x \in P : x # s
        sp == ShortestPaths(g, s, t)
    IN  IF sp = {} THEN <<0, 1>>
        ELSE <<Cardinality({p \in sp : v \in Interior(p)}), Cardinality(sp)>>

\* Brandes: the sum over node pairs of the fraction of shortest paths through v
Betweenness(g, v) ==
    LET ps == SetToSeq(OtherPairs(g, v))
    IN  RatSum([i \in DOMAIN ps |-> Through(g, v, ps[i])])

\* round(score, 4): centralities are counted in units of 0.0001
CentralityUnits == 10000

\* mutant of Normalized: normalized=False, the sums are left as they are
Normalized_Raw(g, b) == b

\* normalized=True (the default): for n > 2 nodes the sum over unordered
\* pairs is divided by (n - 1)(n - 2) / 2
Normalized(g, b) ==
    LET n == Len(g.nodes)
    IN  IF n <= 2 THEN b ELSE <<2 * b[1], b[2] * (n - 1) * (n - 2)>>

\* nx.betweenness_centrality(self.graph, weight="weight"), rounded: (node, score) items
betweenness_centrality(g) ==
    [i \in DOMAIN g.nodes |->
        LET b == Normalized(g, Betweenness(g, g.nodes[i]))
        IN  <<g.nodes[i], RoundDiv(b[1] * CentralityUnits, b[2])>>]

\* s[:n]
PySlice(s, n) ==
    IF n >= 0 THEN Take(s, n)
    ELSE IF Len(s) + n > 0 THEN SubSeq(s, 1, Len(s) + n) ELSE <<>>

\* self.founders[fid].name if fid in self.founders else fid
NameOrId(fid) ==
    IF \E i \in DOMAIN founders : founders[i].id = fid
    THEN founders[CHOOSE i \in DOMAIN founders : founders[i].id = fid].name
    ELSE fid

\* mutant of centrality_rankings: no early return for a graph without edges
centrality_rankings_NoGuard(top_n) ==
    LET ranked == PySlice(SortByCount(betweenness_centrality(graph)), top_n)
    IN  [j \in DOMAIN ranked |->
            [founder_id |-> ranked[j][1], name |-> NameOrId(ranked[j][1]),
             centrality |-> ranked[j][2]]]

centrality_rankings(top_n) ==
    IF DOMAIN graph.adj = {} THEN <<>>
    ELSE LET ranked == PySlice(SortByCount(betweenness_centrality(graph)), top_n)
         IN  [j \in DOMAIN ranked |->
                 [founder_id |-> ranked[j][1], name |-> NameOrId(ranked[j][1]),
                  centrality |-> ranked[j][2]]]

CentralityRankings ==
    /\ \E n \in TopNs :
          result' = [op |-> "centrality_rankings", arg |-> n, value |-> centrality_rankings(n),
                     raised |-> FALSE, builds |-> builds]
    /\ UNCHANGED <<req, pag, founders, companies, hashOrder, graph, edges, builds>>

----------------------------------------------------------------------------
(* detect_clusters *)

\* the outcome of a call: it raised, or it returned v
Raised == [raised |-> TRUE, value |-> <<>>]

Returned(v) == [raised |-> FALSE, value |-> v]

\* G.size(): the number of edges, a self-loop being one edge
NumEdges(g) == Cardinality(DOMAIN g.adj)

\* the sum of G.degree(a) over the nodes a of A; a self-loop adds 2
CommunityDegree(g, A) ==
    Cardinality({<<a, b>> \in A \X Range(g.nodes) : a # b /\ HasEdge(g, a, b)})
        + 2 * Cardinality({a \in A : HasEdge(g, a, a)})

\* the edges with one end in A and the other in B (self-loops are skipped)
EdgesBetween(g, A, B) ==
    Cardinality({e \in DOMAIN g.adj : e \cap A # {} /\ e \cap B # {}})

\* mutant of Gain: resolution = 2
Gain_Resolution2(g, A, B) ==
    2 * NumEdges(g) * EdgesBetween(g, A, B) - 2 * CommunityDegree(g, A) * CommunityDegree(g, B)

\* dq of merging A and B, times 2 m^2: q0 * E(A, B) - 2 * a[A] * a[B] with
\* q0 = 1 / m and a[A] = deg(A) / (2 m); every edge counts 1 (weight=None)
Gain(g, A, B) ==
    2 * NumEdges(g) * EdgesBetween(g, A, B) - CommunityDegree(g, A) * CommunityDegree(g, B)

\* communities[v] = communities[u] | communities[v]; del communities[u]
MergeInto(cs, u, v) ==
    LET joined == [k \in DOMAIN cs |-> IF k = v THEN cs[u] \cup cs[v] ELSE cs[k]]
    IN  [k \in 1..(Len(cs) - 1) |-> IF k < u THEN joined[k] ELSE joined[k + 1]]

\* the greedy loop: merge a pair of joined communities of largest dq until
\* the largest dq is negative or no two communities are joined.  Which of
\* several pairs of equal dq is merged, which of the two keeps its place,
\* and whether a dq of exactly 0 still merges depend on the heap order, on
\* float rounding and on the networkx release: every outcome is possible.
RECURSIVE GreedyMerge(_, _)
GreedyMerge(g, cs) ==
    LET joined == {p \in (DOMAIN cs) \X (DOMAIN cs) :
                      p[1] < p[2] /\ EdgesBetween(g, cs[p[1]], cs[p[2]]) > 0}
        gains == {<<p, Gain(g, cs[p[1]], cs[p[2]])>> : p \in joined}
        top == CHOOSE x \in {pg[2] : pg \in gains} : \A pg \in gains : x >= pg[2]
        best == {<<pg[1][1], pg[1][2]>> : pg \in {x \in gains : x[2] = top}}
                    \cup {<<pg[1][2], pg[1][1]>> : pg \in {x \in gains : x[2] = top}}
        merged == UNION {GreedyMerge(g, MergeInto(cs, p[1], p[2])) : p \in best}
    IN  IF joined = {} THEN {cs}
        ELSE IF top < 0 THEN {cs}
        ELSE IF top = 0 THEN {cs} \cup merged
        ELSE merged

\* sorted(communities, key=len, reverse=True)
SortByLen(cs) ==
    LET sorted == SortByCount([k \in DOMAIN cs |-> <<cs[k], Cardinality(cs[k])>>])
    IN  [k \in DOMAIN sorted |-> sorted[k][1]]

\* nx.community.greedy_modularity_communities(G): the possible outcomes.  On
\* a graph without edges q0 = 1 / m divides by zero in the releases that do
\* not return the single nodes first.
greedy_modularity_communities(g) ==
    IF NumEdges(g) = 0
    THEN {Raised, Returned([k \in DOMAIN g.nodes |-> {g.nodes[k]}])}
    ELSE {Returned(SortByLen(cs)) : cs \in GreedyMerge(g, [k \in DOMAIN g.nodes |-> {g.nodes[k]}])}

\* list(community): the members in the order this process iterates a set
Members(community) == SelectSeq(hashOrder, LAMBDA x : x \in community)

\* the keys one member adds to the contexts Counter, in the order added
ContextKeys(fid) ==
    IF \E i \in DOMAIN founders : founders[i].id = fid
    THEN LET f == founders[CHOOSE i \in DOMAIN founders : founders[i].id = fid]
             known == SelectSeq(f.companies, HasCompany)
         IN  f.education \o f.work_history \o [k \in DOMAIN known |-> CompanyName(known[k])]
    ELSE <<>>

RECURSIVE Contexts(_, _)
Contexts(c, members) ==
    IF members = <<>> THEN c
    ELSE Contexts(CountAll(c, ContextKeys(Head(members))), Tail(members))

\* the dict of community number i (counted from 0)
Cluster(i, community) ==
    LET members == Members(community)
        top_context == MostCommon(Contexts(<<>>, members), 3)
    IN  [cluster_id |-> i,
         size |-> Len(members),
         members |-> [k \in DOMAIN members |-> NameOrId(members[k])],
         dominant_context |->
             [k \in DOMAIN top_context |->
                 [entity |-> top_context[k][1], count |-> top_context[k][2]]]]

\* sorted(clusters, key=size, reverse=True)
SortBySize(clusters) ==
    LET sorted == SortByCount([k \in DOMAIN clusters |-> <<clusters[k], clusters[k].size>>])
    IN  [k \in DOMAIN sorted |-> sorted[k][1]]

\* mutant of Clusters: communities of fewer than min_size members are kept
Clusters_Unfiltered(communities, min_size) ==
    SortBySize([k \in DOMAIN communities |-> Cluster(k - 1, communities[k])])

\* the loop over enumerate(communities) and the final sort
Clusters(communities, min_size) ==
    SortBySize(SelectSeq([k \in DOMAIN communities |-> Cluster(k - 1, communities[k])],
                         LAMBDA c : ~(c.size < min_size)))

\* mutant of detect_clusters: no early return for a graph without edges
detect_clusters_NoGuard(min_size) ==
    {IF out.raised THEN Raised ELSE Returned(Clusters(out.value, min_size)) :
        out \in greedy_modularity_communities(graph)}

\* the possible outcomes of detect_clusters(min_size)
detect_clusters(min_size) ==
    IF DOMAIN graph.adj = {} THEN {Returned(<<>>)}
    ELSE {IF out.raised THEN Raised ELSE Returned(Clusters(out.value, min_size)) :
             out \in greedy_modularity_communities(graph)}

MinSizes == 1..MaxMinSize

\* mutant of DetectClusters: the self-loops are removed from self.graph
\* before the communities are computed
DetectClusters_DropsSelfLoops ==
    /\ \E n \in MinSizes : \E out \in detect_clusters(n) :
          result' = [op |-> "detect_clusters", arg |-> n, value |-> out.value,
                     raised |-> out.raised, builds |-> builds]
    /\ graph' = [graph EXCEPT !.adj = [k \in {x \in DOMAIN graph.adj : Cardinality(x) = 2} |-> graph.adj[k]]]
    /\ UNCHANGED <<req, pag, founders, companies, hashOrder, edges, builds>>
DetectClusters ==
    /\ \E n \in MinSizes : \E out \in detect_clusters(n) :
          result' = [op |-> "detect_clusters", arg |-> n, value |-> out.value,
                     raised |-> out.raised, builds |-> builds]
    /\ UNCHANGED <<req, pag, founders, companies, hashOrder, graph, edges, builds>>

----------------------------------------------------------------------------
(* generate_insights: a NetworkInsight is [category, title, score, entities]; *)
(* a title is the sequence of the parts its f-string joins, and the detail,   *)
(* built from the same parts, is left out.  Scores are counted in units of    *)
(* 0.01, so that count * 1.5, count * 2.5 and centrality * 100 are integers.  *)

ScoreUnits == 100

\* education_hubs(10), employer_pipelines(10), founder_to_company_flow()[:10]
InsightTopN == 10

\* centrality_rankings(5)
BridgeTopN == 5

\* detect_clusters(3)
ClusterMinSize == 3

\* hub["founder_count"] >= 3, pipe["founder_count"] >= 3
FounderCountThreshold == 3

\* bridge["centrality"] > 0.01, in units of 0.0001
CentralityThreshold == 100

Unknown == <<"unknown">>

HubInsight(hub) ==
    [category |-> "education_hub",
     title |-> <<hub.institution, " Founder Factory">>,
     score |-> hub.founder_count * ScoreUnits,
     entities |-> <<hub.institution>>]

PipelineInsight(pipe) ==
    [category |-> "employer_pipeline",
     title |-> <<pipe.employer, " Alumni Mafia">>,
     score |-> (pipe.founder_count * 3 * ScoreUnits) \div 2,
     entities |-> <<pipe.employer>>]

BridgeInsight(bridge) ==
    [category |-> "bridge_founder",
     title |-> <<bridge.name, EmDash, " Network Connector">>,
     score |-> (bridge.centrality * 100 * ScoreUnits) \div CentralityUnits,
     entities |-> <<bridge.name>>]

ClusterInsight(cluster) ==
    LET top_ctx == IF cluster.dominant_context # <<>>
                   THEN cluster.dominant_context[1].entity ELSE Unknown
    IN  [category |-> "cluster",
         title |-> <<top_ctx, " Cluster (", cluster.size, " founders)">>,
         score |-> cluster.size * 2 * ScoreUnits,
         entities |-> cluster.members]

\* mutant of FlowInsight: the score is count * 2
FlowInsight_Double(flow) ==
    [category |-> "talent_flow",
     title |-> <<flow.from_employer, " -> ", flow.to_company>>,
     score |-> flow.count * 2 * ScoreUnits,
     entities |-> flow.founders]

FlowInsight(flow) ==
    [category |-> "talent_flow",
     title |-> <<flow.from_employer, " -> ", flow.to_company>>,
     score |-> (flow.count * 5 * ScoreUnits) \div 2,
     entities |-> flow.founders]

\* mutant of HubInsights: the threshold is founder_count > 3
HubInsights_Above ==
    LET kept == SelectSeq(education_hubs(InsightTopN),
                          LAMBDA hub : hub.founder_count > FounderCountThreshold)
    IN  [k \in DOMAIN kept |-> HubInsight(kept[k])]

HubInsights ==
    LET kept == SelectSeq(education_hubs(InsightTopN),
                          LAMBDA hub : hub.founder_count >= FounderCountThreshold)
    IN  [k \in DOMAIN kept |-> HubInsight(kept[k])]

PipelineInsights ==
    LET kept == SelectSeq(employer_pipelines(InsightTopN),
                          LAMBDA pipe : pipe.founder_count >= FounderCountThreshold)
    IN  [k \in DOMAIN kept |-> PipelineInsight(kept[k])]

BridgeInsights ==
    LET kept == SelectSeq(centrality_rankings(BridgeTopN),
                          LAMBDA bridge : bridge.centrality > CentralityThreshold)
    IN  [k \in DOMAIN kept |-> BridgeInsight(kept[k])]

ClusterInsights(clusters) == [k \in DOMAIN clusters |-> ClusterInsight(clusters[k])]

FlowInsights(flows) ==
    LET kept == PySlice(flows, InsightTopN)
    IN  [k \in DOMAIN kept |-> FlowInsight(kept[k])]

\* mutant of SortInsights: the insights are left in the order generated
SortInsights_Unsorted(insights) == insights

\* sorted(insights, key=lambda i: i.score, reverse=True)
SortInsights(insights) ==
    LET sorted == SortByCount([k \in DOMAIN insights |-> <<insights[k], insights[k].score>>])
    IN  [k \in DOMAIN sorted |-> sorted[k][1]]

\* the possible outcomes of generate_insights(): an exception of
\* detect_clusters goes through
generate_insights ==
    {IF c.raised THEN Raised
     ELSE Returned(SortInsights(HubInsights \o PipelineInsights \o BridgeInsights
                                    \o ClusterInsights(c.value) \o FlowInsights(fl))) :
        c \in detect_clusters(ClusterMinSize), fl \in founder_to_company_flow}

GenerateInsights ==
    /\ \E out \in generate_insights :
          result' = [op |-> "generate_insights", arg |-> 0, value |-> out.value,
                     raised |-> out.raised, builds |-> builds]
    /\ UNCHANGED <<req, pag, founders, companies, hashOrder, graph, edges, builds>>

----------------------------------------------------------------------------
(* Inputs *)

(* TracxnClient._request: one HTTP call with retries *)

MaxRetries == 4

TooManyRequests == 429
ErrorStatus == 400

\* status codes a response can carry
Statuses == {200, 201, 399, ErrorStatus, 404, TooManyRequests, 500, 503}

\* what self._session.request does on one attempt: it raises a
\* requests.RequestException, or returns a response with a status code
Outcomes ==
    {[kind |-> "exception", status |-> 0]}
    \cup {[kind |-> "response", status |-> code] : code \in Statuses}

\* _get and _post
Methods == {"GET", "POST"}

\* TracxnClient(max_retries=n), no call made yet
NewClient(n) ==
    [pc |-> "idle", max_retries |-> n, method |-> "none", attempt |-> 0, requests |-> 0,
     slept |-> 0, last |-> [kind |-> "none", status |-> 0], error |-> "none", status |-> 0]

\* mutant of Exhausted: one more retry is allowed
Exhausted_Late(attempt, max_retries) == attempt > max_retries + 1

\* if attempt > self.max_retries
Exhausted(attempt, max_retries) == attempt > max_retries

\* attempt += 1; if attempt > self.max_retries: raise; wait = 2**attempt;
\* time.sleep(wait); continue
Retry(r, outcome, error, status) ==
    LET attempt == r.attempt + 1
    IN  IF Exhausted(attempt, r.max_retries)
        THEN [r EXCEPT !.attempt = attempt, !.last = outcome, !.pc = "raised",
                       !.error = error, !.status = status]
        ELSE [r EXCEPT !.attempt = attempt, !.last = outcome, !.slept = @ + 2^attempt]

\* one round of the while loop: the HTTP attempt and what follows from it
Attempt(r, outcome) ==
    LET sent == [r EXCEPT !.requests = @ + 1]
    IN  IF outcome.kind = "exception" THEN Retry(sent, outcome, "RequestException", 0)
        ELSE IF outcome.status = TooManyRequests
        THEN Retry(sent, outcome, "TracxnAPIError", TooManyRequests)
        ELSE IF outcome.status >= ErrorStatus
        THEN [sent EXCEPT !.last = outcome, !.pc = "raised", !.error = "TracxnAPIError",
                          !.status = outcome.status]
        ELSE [sent EXCEPT !.last = outcome, !.pc = "returned", !.status = outcome.status]

\* _request(method, path) is called: attempt = 0
CallRequest ==
    /\ req.pc = "idle"
    /\ \E method \in Methods : req' = [req EXCEPT !.pc = "running", !.method = method]
    /\ UNCHANGED <<founders, companies, hashOrder, graph, edges, builds, result, pag>>

RequestAttempt ==
    /\ req.pc = "running"
    /\ \E outcome \in Outcomes : req' = Attempt(req, outcome)
    /\ UNCHANGED <<founders, companies, hashOrder, graph, edges, builds, result, pag>>

----------------------------------------------------------------------------
(* TracxnClient._paginate: pages of at most MAX_PER_PAGE items *)

MAX_PER_PAGE == 20

MaxLimit == 41

Min(a, b) == IF a < b THEN a ELSE b

\* The body of a page, by the place of its item list: under "result", under
\* "items", under "result" as a dict with "items", under "result" as a dict
\* without "items", or nowhere; n is the length of the list.
Shapes == {"result", "items", "result.items", "result.other", "neither"}

\* items = data.get("result", data.get("items", [])); if isinstance(items,
\* dict): items = items.get("items", []).  The number of items found.
ItemsOf(shape, n) == IF shape \in {"result", "items", "result.items"} THEN n ELSE 0

\* mutant of BatchSize: the whole remainder is asked for in one page
BatchSize_Remainder(limit, received) == limit - received

\* batch_size = min(MAX_PER_PAGE, limit - len(results))
BatchSize(limit, received) == Min(MAX_PER_PAGE, limit - received)

\* results[:limit] of a list of n items
SliceLen(n, limit) ==
    IF limit >= 0 THEN Min(n, limit) ELSE IF n + limit > 0 THEN n + limit ELSE 0

\* _paginate(path, payload, limit) with payload.get("from", 0) = from, no page
\* asked for yet
NewPaginate(limit, from) ==
    [pc |-> "idle", limit |-> limit, from |-> from, offset |-> from, received |-> 0,
     pages |-> 0, size |-> 0, asked |-> 0, got |-> 0, returned |-> 0]

\* return results[:limit]
Return(p) == [p EXCEPT !.pc = "returned", !.returned = SliceLen(p.received, p.limit)]

\* while len(results) < limit
Loop(p) == IF p.received < p.limit THEN [p EXCEPT !.pc = "running"] ELSE Return(p)

\* one round of the loop whose page arrives with n items in the given shape
Page(p, shape, n) ==
    LET batch_size == BatchSize(p.limit, p.received)
        items == ItemsOf(shape, n)
        asked == [p EXCEPT !.pages = @ + 1, !.size = batch_size, !.asked = p.offset,
                           !.got = items]
    IN  IF items = 0 THEN Return(asked)
        ELSE LET extended == [asked EXCEPT !.received = @ + items, !.offset = @ + items]
             IN  IF items < batch_size THEN Return(extended) ELSE Loop(extended)

\* _paginate is called
CallPaginate ==
    /\ pag.pc = "idle"
    /\ pag' = Loop(pag)
    /\ UNCHANGED <<founders, companies, hashOrder, graph, edges, builds, result, req>>

\* a page arrives: the server may send fewer items than asked, or one more
FetchPage ==
    /\ pag.pc = "running"
    /\ \E shape \in Shapes, n \in 0..(BatchSize(pag.limit, pag.received) + 1) :
          pag' = Page(pag, shape, n)
    /\ UNCHANGED <<founders, companies, hashOrder, graph, edges, builds, result, req>>

\* self._post raises (retries used up, or an error status): _paginate does
\* not catch it
PageFails ==
    /\ pag.pc = "running"
    /\ pag' = [pag EXCEPT !.pc = "raised", !.pages = @ + 1,
                          !.size = BatchSize(pag.limit, pag.received), !.asked = pag.offset,
                          !.got = 0]
    /\ UNCHANGED <<founders, companies, hashOrder, graph, edges, builds, result, req>>

----------------------------------------------------------------------------
Id1 == <<"1">>
Id2 == <<"2">>
NameX == <<"X">>
NameZ == <<"Z">>
InstY == <<"Y">>
InstI == <<"I">>
EmpA == <<"A">>
EmpB == <<"B">>

NameOf ==
    [f \in FounderIds |->
        IF f = "f1" THEN "D" ELSE IF f = "f2" THEN "E" ELSE IF f = "f3" THEN "F" ELSE "G"]

\* Founder(id, name, companies, education, work_history); an Education is
\* modelled by its institution, a WorkExperience by its company
MkFounder(id, cs, ed, wh) ==
    [id |-> id, name |-> NameOf[id], companies |-> cs, education |-> ed, work_history |-> wh]

InitAnalyser ==
    /\ graph = EmptyGraph
    /\ edges = <<>>
    /\ builds = 0
    /\ result = [op |-> "none", arg |-> 0, value |-> <<>>, raised |-> FALSE, builds |-> 0]

\* no TracxnClient call is under way
NoClient == req = [pc |-> "none"] /\ pag = [pc |-> "none"]

BothKnown == << [id |-> Id1, name |-> NameX], [id |-> Id2, name |-> NameZ] >>
OneDangling == << [id |-> Id1, name |-> NameX] >>
SameName == << [id |-> Id1, name |-> NameX], [id |-> Id2, name |-> NameX] >>
NameIsOtherId == << [id |-> Id1, name |-> Id2] >>

\* The first founder's lists hold up to MaxRecs records of raw text (blanks,
\* placeholders, repeats); the other founders' lists are short and plain.
RawShapes ==
    {<<cs, ed, wh>> :
        cs \in SeqsUpTo({Id1, Id2}, MaxRecs),
        ed \in SeqsUpTo({InstY, <<" ", "Y">>, InstI}, MaxRecs) \cup {<<<<" ">>>>},
        wh \in SeqsUpTo({EmpA, EmDash, <<" ">>}, 1)}

PlainShapes ==
    {<<cs, ed, wh>> :
        cs \in {<<>>, <<Id1>>, <<Id1, Id2>>, <<Id2, Id1>>},
        ed \in {<<>>, <<InstY>>, <<InstI>>, <<InstY, InstI>>},
        wh \in {<<>>, <<EmpA>>}}

SmallShapes ==
    {<<cs, ed, wh>> :
        cs \in {<<>>, <<Id1>>}, ed \in {<<>>, <<InstY>>}, wh \in {<<>>, <<EmpA>>}}

\* two founders; company Id1 is known, Id2 is not in the company collection
InitPair ==
    /\ \E s1 \in RawShapes, s2 \in PlainShapes :
          founders = << MkFounder("f1", s1[1], s1[2], s1[3]),
                        MkFounder("f2", s2[1], s2[2], s2[3]) >>
    /\ companies = OneDangling
    /\ hashOrder \in Perms({"f1", "f2"})

\* three founders with at most one record of each kind
InitTrio ==
    /\ \E s1 \in SmallShapes, s2 \in SmallShapes, s3 \in SmallShapes :
          founders = << MkFounder("f1", s1[1], s1[2], s1[3]),
                        MkFounder("f2", s2[1], s2[2], s2[3]),
                        MkFounder("f3", s3[1], s3[2], s3[3]) >>
    /\ companies = OneDangling
    /\ hashOrder \in Perms({"f1", "f2", "f3"})

InitBuild == (InitPair \/ InitTrio) /\ InitAnalyser /\ NoClient

NextBuild == Build

SpecBuild == InitBuild /\ [][NextBuild]_vars

\* education records (or work records) only: hub and pipeline rankings
HubNames(a, b, c) == SeqsUpTo({a, b, c, <<" ">> \o a, <<" ">>}, MaxRecs)

InitHubs ==
    /\ \/ \E e1 \in HubNames(InstY, InstI, <<"W">>), e2 \in SeqsUpTo({InstY, InstI, <<"W">>}, 2),
             e3 \in {<<>>, <<InstY>>, <<InstI>>} :
             founders = << MkFounder("f1", <<>>, e1, <<>>), MkFounder("f2", <<>>, e2, <<>>),
                           MkFounder("f3", <<>>, e3, <<>>) >>
       \/ \E w1 \in HubNames(EmpA, EmpB, EmDash), w2 \in SeqsUpTo({EmpA, EmpB, EmDash}, 2),
             w3 \in {<<>>, <<EmpA>>, <<EmpB>>} :
             founders = << MkFounder("f1", <<>>, <<>>, w1), MkFounder("f2", <<>>, <<>>, w2),
                           MkFounder("f3", <<>>, <<>>, w3) >>
    /\ companies = BothKnown
    /\ hashOrder = <<"f1", "f2", "f3">>
    /\ InitAnalyser /\ NoClient

NextHubs == EducationHubs \/ EmployerPipelines

SpecHubs == InitHubs /\ [][NextHubs]_vars

\* work records and founded companies: talent flows
InitFlow ==
    /\ \E c1 \in SeqsUpTo({Id1, Id2}, MaxRecs),
          c2 \in {<<>>, <<Id1>>, <<Id2>>, <<Id1, Id2>>},
          c3 \in {<<>>, <<Id1>>, <<Id2>>},
          w1 \in SeqsUpTo({EmpA, EmpB}, MaxRecs) \cup {<<EmDash>>, <<<<" ">>>>, <<<<" ", "A">>>>},
          w2 \in SeqsUpTo({EmpA, EmDash, <<" ">>, <<" ", "A">>}, 1),
          w3 \in {<<>>, <<EmpA>>} :
          founders = << MkFounder("f1", c1, <<>>, w1), MkFounder("f2", c2, <<>>, w2),
                        MkFounder("f3", c3, <<>>, w3) >>
    /\ companies \in {BothKnown, OneDangling, SameName, NameIsOtherId}
    /\ hashOrder = <<"f1", "f2", "f3">>
    /\ InitAnalyser /\ NoClient

NextFlow == FounderToCompanyFlow

SpecFlow == InitFlow /\ [][NextFlow]_vars

\* three or four founders joined by companies and one institution: routes of
\* different weight between the same founders, and isolated founders
RouteCompanies == {<<>>, <<Id1>>, <<Id2>>, <<Id1, Id2>>}

RouteShapes == {<<cs, ed>> : cs \in RouteCompanies, ed \in {<<>>, <<InstY>>}}

InitRoutes ==
    /\ \/ /\ \E s1 \in RouteShapes, s2 \in RouteShapes, s3 \in RouteShapes :
                founders = << MkFounder("f1", s1[1], s1[2], <<>>),
                              MkFounder("f2", s2[1], s2[2], <<>>),
                              MkFounder("f3", s3[1], s3[2], <<>>) >>
          /\ hashOrder = <<"f1", "f2", "f3">>
       \/ /\ \E c1 \in RouteCompanies, c2 \in RouteCompanies,
                c3 \in {<<Id2>>, <<Id1, Id2>>}, c4 \in {<<>>, <<Id1>>} :
                founders = << MkFounder("f1", c1, <<>>, <<>>),
                              MkFounder("f2", c2, <<>>, <<>>),
                              MkFounder("f3", c3, <<>>, <<>>),
                              MkFounder("f4", c4, <<>>, <<>>) >>
          /\ hashOrder = <<"f4", "f3", "f2", "f1">>
    /\ companies = BothKnown
    /\ InitAnalyser /\ NoClient

NextCentrality == Build \/ CentralityRankings

SpecCentrality == InitRoutes /\ [][NextCentrality]_vars

NextClusters == Build \/ DetectClusters

SpecClusters == InitRoutes /\ [][NextClusters]_vars

\* founders of a company that is missing from the company collection: Id1 is
\* known, Id2 is not
DanglingShapes ==
    {<<cs, wh>> : cs \in SeqsUpTo({Id1, Id2}, MaxRecs), wh \in {<<>>, <<EmpA>>}}

InitDangling ==
    /\ \E s1 \in DanglingShapes, s2 \in DanglingShapes, c3 \in {<<>>, <<Id2>>} :
          founders = << MkFounder("f1", s1[1], <<>>, s1[2]),
                        MkFounder("f2", s2[1], <<>>, s2[2]),
                        MkFounder("f3", c3, <<>>, <<EmpA>>) >>
    /\ companies = OneDangling
    /\ hashOrder = <<"f1", "f2", "f3">>
    /\ InitAnalyser /\ NoClient

NextDangling == Build \/ FounderToCompanyFlow

SpecDangling == InitDangling /\ [][NextDangling]_vars
\* the same founder records and the same company records, handed to the
\* analyser in every order
ShuffleShapes ==
    {<<cs, ed, wh>> :
        cs \in {<<>>, <<Id1>>, <<Id1, Id2>>, <<Id2, Id2>>},
        ed \in {<<>>, <<InstY>>}, wh \in {<<>>, <<EmpA>>}}

InitShuffle ==
    /\ \E s1 \in ShuffleShapes, s2 \in ShuffleShapes :
       \E c3 \in {<<>>, <<Id1>>}, e3 \in {<<>>, <<InstY>>} :
          founders \in Perms({ MkFounder("f1", s1[1], s1[2], s1[3]),
                               MkFounder("f2", s2[1], s2[2], s2[3]),
                               MkFounder("f3", c3, e3, <<>>) })
    /\ companies \in Perms(Range(BothKnown))
    /\ hashOrder \in {<<"f1", "f2", "f3">>, <<"f3", "f2", "f1">>}
    /\ InitAnalyser /\ NoClient

SpecShuffle == InitShuffle /\ [][NextBuild]_vars
\* co-founders whose education and work records hold raw text: blanks, the
\* empty string, the placeholder
ContextShapes ==
    {<<ed, wh>> :
        ed \in {<<>>, <<InstY>>, <<<<>>>>, <<<<" ">>, InstY>>},
        wh \in {<<>>, <<EmpA>>, <<EmDash>>, <<<<" ">>>>}}

InitContexts ==
    /\ \E s1 \in ContextShapes, s2 \in ContextShapes, c3 \in {<<>>, <<Id1>>} :
          founders = << MkFounder("f1", <<Id1>>, s1[1], s1[2]),
                        MkFounder("f2", <<Id1>>, s2[1], s2[2]),
                        MkFounder("f3", c3, <<>>, <<>>) >>
    /\ companies = BothKnown
    /\ hashOrder = <<"f1", "f2", "f3">>
    /\ InitAnalyser /\ NoClient

SpecContexts == InitContexts /\ [][NextClusters]_vars
\* no NetworkAnalyser is at work
NoAnalyser ==
    /\ founders = <<>> /\ companies = <<>> /\ hashOrder = <<>>
    /\ InitAnalyser

\* a client with 0..MaxRetries retries, about to make one request
InitRequest ==
    /\ \E n \in 0..MaxRetries : req = NewClient(n)
    /\ pag = [pc |-> "none"]
    /\ NoAnalyser

NextRequest == CallRequest \/ RequestAttempt

SpecRequest == InitRequest /\ [][NextRequest]_vars

\* a client about to fetch up to limit items, from offset 0 or from further on
InitPaginate ==
    /\ \E limit \in 0..MaxLimit, from \in {0, 7} : pag = NewPaginate(limit, from)
    /\ req = [pc |-> "none"]
    /\ NoAnalyser

NextPaginate == CallPaginate \/ FetchPage \/ PageFails

SpecPaginate == InitPaginate /\ [][NextPaginate]_vars
\* three founders with one company, one institution and one employer between
\* them; the first may list the company, the institution or the employer twice
DeskShapes ==
    { <<<<>>, <<>>, <<>>>>, <<<<Id1>>, <<InstY>>, <<>>>>,
      <<<<Id1>>, <<>>, <<EmpA>>>>, <<<<>>, <<InstY>>, <<EmpA>>>> }

FirstDeskShapes ==
    DeskShapes \cup { <<<<>>, <<>>, <<EmpA, EmpA>>>>, <<<<Id1>>, <<InstY, InstY>>, <<>>>>,
                       <<<<Id1, Id1>>, <<>>, <<>>>> }

InitDesk ==
    /\ \E s1 \in FirstDeskShapes, s2 \in DeskShapes, s3 \in DeskShapes :
          founders = << MkFounder("f1", s1[1], s1[2], s1[3]),
                        MkFounder("f2", s2[1], s2[2], s2[3]),
                        MkFounder("f3", s3[1], s3[2], s3[3]) >>
    /\ companies = BothKnown
    /\ hashOrder = <<"f3", "f1", "f2">>

\* the k-th of many names: k letters
ManyName(k) == [i \in 1..k |-> "N"]

ManyNames(k) == [i \in 1..k |-> ManyName(i)]

\* three founders who list up to MaxInstitutions institutions
InitMany ==
    /\ \E k1 \in {0, MaxInstitutions - 1, MaxInstitutions},
          k2 \in {MaxInstitutions - 1, MaxInstitutions} :
          founders = << MkFounder("f1", <<>>, ManyNames(k1), <<>>),
                        MkFounder("f2", <<>>, ManyNames(k2), <<>>),
                        MkFounder("f3", <<>>, ManyNames(MaxInstitutions), <<>>) >>
    /\ companies = BothKnown
    /\ hashOrder = <<"f1", "f2", "f3">>

\* no founders at all
InitNone ==
    /\ founders = <<>>
    /\ companies = BothKnown
    /\ hashOrder = <<>>

Init == (InitDesk \/ InitMany \/ InitNone) /\ InitAnalyser /\ NoClient

Next ==
    \/ Build
    \/ EducationHubs
    \/ EmployerPipelines
    \/ CentralityRankings
    \/ DetectClusters
    \/ FounderToCompanyFlow
    \/ GenerateInsights

Spec == Init /\ [][Next]_vars

----------------------------------------------------------------------------
(* What the input says about a pair of founders *)

FounderOf(fid) == founders[CHOOSE i \in DOMAIN founders : founders[i].id = fid]

Ids == {founders[i].id : i \in DOMAIN founders}

Institutions(f) == {Strip(x) : x \in Range(f.education)} \ {<<>>}

Employers(f) == {Strip(x) : x \in Range(f.work_history)} \ {<<>>, EmDash}

SharedCompanies(a, b) == Range(FounderOf(a).companies) \cap Range(FounderOf(b).companies)

SharedInstitutions(a, b) == Institutions(FounderOf(a)) \cap Institutions(FounderOf(b))

SharedEmployers(a, b) == Employers(FounderOf(a)) \cap Employers(FounderOf(b))

\* 3.0 per shared company id + 1.0 per shared institution + 1.5 per shared employer
ContributionSum(a, b) ==
    6 * Cardinality(SharedCompanies(a, b))
    + 2 * Cardinality(SharedInstitutions(a, b))
    + 3 * Cardinality(SharedEmployers(a, b))

EdgeWeight(a, b) == IF HasEdge(graph, a, b) THEN graph.adj[{a, b}].weight ELSE 0

\* the first key of an insertion-ordered dict that lies in S
FirstKeyIn(d, S) == d[CHOOSE i \in DOMAIN d : d[i][1] \in S /\ \A j \in 1..(i - 1) : d[j][1] \notin S][1]

----------------------------------------------------------------------------
(* Claims about build_graph *)

\* C1: after build_graph, for every pair of distinct founders the edge weight
\* is 3.0 x shared company ids + 1.0 x shared institutions + 1.5 x shared
\* employers, and the pair has no edge exactly when that sum is 0.
C1_WeightIsContributionSum ==
    builds >= 1 =>
        \A a \in Ids, b \in Ids :
            a # b => /\ EdgeWeight(a, b) = ContributionSum(a, b)
                     /\ HasEdge(graph, a, b) <=> ContributionSum(a, b) > 0

\* C2: two founders who share exactly one company and exactly one institution
\* and no employer are joined by one edge, of weight 4.0.
C2_CompanyPlusInstitution ==
    builds >= 1 =>
        \A a \in Ids, b \in Ids :
            ( /\ a # b
              /\ Cardinality(SharedCompanies(a, b)) = 1
              /\ Cardinality(SharedInstitutions(a, b)) = 1
              /\ SharedEmployers(a, b) = {} )
            => HasEdge(graph, a, b) /\ graph.adj[{a, b}].weight = 8

C2_Witness ==
    /\ builds = MaxBuilds
    /\ \E a \in Ids, b \in Ids :
          /\ a # b
          /\ Cardinality(SharedCompanies(a, b)) = 1
          /\ Cardinality(SharedInstitutions(a, b)) = 1
          /\ SharedEmployers(a, b) = {}
          /\ Cardinality(Range(FounderOf(a).education)) = 2
          /\ EdgeWeight(a, b) = 8

\* C3: after build_graph no edge connects a founder id to itself.
C3_NoSelfLoops ==
    builds >= 1 => \A a \in Ids : ~HasEdge(graph, a, a)

\* C4: a second build_graph leaves the graph with the edges and the weights
\* the first call left.
C4_RebuildKeepsWeights ==
    [][builds >= 1 => \A a \in Ids, b \in Ids :
            /\ HasEdge(graph', a, b) <=> HasEdge(graph, a, b)
            /\ HasEdge(graph, a, b) => graph'.adj[{a, b}].weight = graph.adj[{a, b}].weight]_vars

\* C5: the kind and the context on a graph edge are those of the earliest
\* contribution applied to the pair: rule order co-founder, same-institution,
\* same-employer, and within a rule the first group processed.  (For the
\* co-founder rule the company's id and its display name both count as the
\* context of the company's contribution.)
C5_FirstContributionLabels ==
    builds >= 1 =>
        \A a \in Ids, b \in Ids :
            (a # b /\ HasEdge(graph, a, b)) =>
                LET e == graph.adj[{a, b}]
                IN  IF SharedCompanies(a, b) # {}
                    THEN LET cid == FirstKeyIn(company_founders, SharedCompanies(a, b))
                         IN  e.rel = "co_founder" /\ e.ctx \in {cid, CompanyName(cid)}
                    ELSE IF SharedInstitutions(a, b) # {}
                    THEN /\ e.rel = "same_college"
                         /\ e.ctx = FirstKeyIn(institution_map, SharedInstitutions(a, b))
                    ELSE /\ e.rel = "same_employer"
                         /\ e.ctx = FirstKeyIn(employer_map, SharedEmployers(a, b))

----------------------------------------------------------------------------
(* Claims about founder_to_company_flow *)

IsFlow == result.op = "founder_to_company_flow"

\* founders whose name is in the list
FoundersNamed(names) == {fid \in Ids : FounderOf(fid).name \in Range(names)}

\* C6: founder_to_company_flow returns no entry whose founders list comes
\* from fewer than 2 distinct founders.
C6_FlowNeedsTwoFounders ==
    IsFlow => \A j \in DOMAIN result.value :
                  Cardinality(FoundersNamed(result.value[j].founders)) >= 2

\* the founders who have employer emp in their work history and a founded
\* company shown as label
FlowContributors(emp, label) ==
    {fid \in Ids : /\ emp \in FlowEmployers(FounderOf(fid))
                   /\ \E cid \in Range(FounderOf(fid).companies) : CompanyName(cid) = label}

\* names of the founders in S, in founder order
NamesOf(S) ==
    LET in == SelectSeq(founders, LAMBDA f : f.id \in S)
    IN  [j \in DOMAIN in |-> in[j].name]

FlowPairs ==
    {<<emp, CompanyName(cid)>> :
        emp \in UNION {FlowEmployers(founders[i]) : i \in DOMAIN founders},
        cid \in UNION {Range(founders[i].companies) : i \in DOMAIN founders}}

\* C7: founder_to_company_flow returns exactly one entry for each (employer,
\* founded company) pair that at least 2 founders have, with founders = the
\* names of those founders and count = their number, ordered by count
\* descending.
C7_FlowEntries ==
    IsFlow =>
        LET v == result.value
        IN  /\ \A p \in FlowPairs :
                  Cardinality(FlowContributors(p[1], p[2])) >= 2 =>
                      \E j \in DOMAIN v :
                          /\ v[j].from_employer = p[1] /\ v[j].to_company = p[2]
                          /\ v[j].founders = NamesOf(FlowContributors(p[1], p[2]))
                          /\ v[j].count = Cardinality(FlowContributors(p[1], p[2]))
            /\ \A j \in DOMAIN v :
                  /\ Cardinality(FlowContributors(v[j].from_employer, v[j].to_company)) >= 2
                  /\ \A k \in DOMAIN v :
                        (v[k].from_employer = v[j].from_employer
                         /\ v[k].to_company = v[j].to_company) => k = j
            /\ \A j \in 1..(Len(v) - 1) : v[j].count >= v[j + 1].count

----------------------------------------------------------------------------
(* Claims about education_hubs and employer_pipelines *)

IsHubs == result.op = "education_hubs"
IsPipelines == result.op = "employer_pipelines"

\* C8: the founder_count reported for an institution (employer) is the number
\* of founders who list it.
C8_CountIsFoundersListing ==
    /\ IsHubs => \A j \in DOMAIN result.value :
            result.value[j].founder_count =
                Cardinality({fid \in Ids : result.value[j].institution \in Institutions(FounderOf(fid))})
    /\ IsPipelines => \A j \in DOMAIN result.value :
            result.value[j].founder_count =
                Cardinality({fid \in Ids : result.value[j].employer \in Employers(FounderOf(fid))})

\* every founder's institutions as listed (trimmed, blanks dropped), in input order
RECURSIVE InstitutionsListed(_)
InstitutionsListed(i) ==
    IF i > Len(founders) THEN <<>>
    ELSE SelectSeq([j \in DOMAIN founders[i].education |-> Strip(founders[i].education[j])],
                   LAMBDA x : x # <<>>) \o InstitutionsListed(i + 1)

FirstListed(inst) ==
    CHOOSE k \in DOMAIN InstitutionsListed(1) : /\ InstitutionsListed(1)[k] = inst
                                                /\ \A m \in 1..(k - 1) : InstitutionsListed(1)[m] # inst

\* C9: for n >= 0, education_hubs(n) returns at most n entries, their counts
\* are non-increasing, and entries with equal count come in the order their
\* institution was first encountered.
C9_HubsRanked ==
    (IsHubs /\ result.arg >= 0) =>
        LET v == result.value
        IN  /\ Len(v) <= result.arg
            /\ \A j \in DOMAIN v, k \in DOMAIN v :
                  j < k => /\ v[j].founder_count >= v[k].founder_count
                           /\ v[j].founder_count = v[k].founder_count =>
                                 FirstListed(v[j].institution) < FirstListed(v[k].institution)

C9_Witness ==
    /\ IsHubs /\ result.arg = 2 /\ Len(result.value) = 2
    /\ Len(education_counter) = 3
    /\ result.value[1].founder_count = result.value[2].founder_count
    /\ FirstListed(result.value[1].institution) > 1

\* the education records of the input: one (founder, institution) pair each
EducationRecords == SumSeq([i \in DOMAIN founders |-> Len(founders[i].education)])

----------------------------------------------------------------------------
(* Claims about centrality_rankings *)

\* the last query was centrality_rankings, on the graph as it is now
IsCentrality == result.op = "centrality_rankings" /\ result.builds = builds

\* the cost of a path when a larger weight makes an edge cheaper: the sum of
\* the reciprocals of its edges' weights
ReciprocalLength(g, p) == RatSum([i \in 1..(Len(p) - 1) |-> <<1, g.adj[{p[i], p[i + 1]}].weight>>])

StrongestRoutes(g, s, t) ==
    LET ps == Paths(g, s, t)
    IN  {p \in ps : \A q \in ps : RatLeq(ReciprocalLength(g, p), ReciprocalLength(g, q))}

OnStrongestRoute(g, v) ==
    \E P \in OtherPairs(g, v) :
        \E s \in P, t \in P : s # t /\ \E p \in StrongestRoutes(g, s, t) : v \in Interior(p)

\* C11: shortest paths are taken with a larger weight making an edge cheaper:
\* a founder gains betweenness exactly when the founder lies inside a route
\* that is cheapest, by reciprocal weight, between two other founders.
C11_HeavierIsCheaper ==
    IsCentrality =>
        \A j \in DOMAIN result.value :
            result.value[j].centrality > 0 <=> OnStrongestRoute(graph, result.value[j].founder_id)

\* C12: the reported centrality is the raw betweenness sum, rounded to four
\* decimals, whatever the number of nodes.
C12_RawBetweenness ==
    IsCentrality =>
        \A j \in DOMAIN result.value :
            LET b == Betweenness(graph, result.value[j].founder_id)
            IN  result.value[j].centrality = RoundDiv(b[1] * CentralityUnits, b[2])

Abs(x) == IF x < 0 THEN 0 - x ELSE x

\* C12 (amended): on a graph of n > 2 nodes the reported centrality is the
\* betweenness sum divided by (n - 1)(n - 2) / 2, to within half of 0.0001.
C12_NormalizedBetweenness ==
    IsCentrality =>
        \A j \in DOMAIN result.value :
            LET b == Betweenness(graph, result.value[j].founder_id)
                n == Len(graph.nodes)
                d == b[2] * (n - 1) * (n - 2)
            IN  n > 2 => 2 * Abs(result.value[j].centrality * d - 2 * b[1] * CentralityUnits) <= d

C12_Witness ==
    /\ IsCentrality /\ Len(graph.nodes) = 4 /\ Len(result.value) >= 1
    /\ Betweenness(graph, result.value[1].founder_id) = <<1, 1>>
    /\ result.value[1].centrality = 3333

----------------------------------------------------------------------------
(* Claims about detect_clusters *)

\* the last query was detect_clusters, on the graph as it is now
IsClusters == result.op = "detect_clusters" /\ result.builds = builds

\* C13: on a graph without edges (no nodes, isolated nodes only, or never
\* built) centrality_rankings and detect_clusters return the empty list and
\* do not raise.
C13_EmptyOnNoEdges ==
    (IsCentrality \/ IsClusters) /\ DOMAIN graph.adj = {} =>
        result.value = <<>> /\ ~result.raised

C13_Witness ==
    /\ IsCentrality /\ builds >= 1 /\ result.arg >= 1
    /\ Len(graph.nodes) = 3 /\ DOMAIN graph.adj = {}
    /\ result.value = <<>> /\ ~result.raised

\* C14: every cluster detect_clusters(min_size) returns has at least min_size
\* members, and its size is the number of its members.
C14_ClusterSizes ==
    IsClusters =>
        \A j \in DOMAIN result.value :
            /\ result.value[j].size >= result.arg
            /\ result.value[j].size = Len(result.value[j].members)

\* a community of one isolated founder was left out
C14_Witness ==
    /\ IsClusters /\ result.arg = 2 /\ Len(graph.nodes) = 4
    /\ \E a \in Range(graph.nodes) : Neighbors(graph, a) = {}
    /\ Len(result.value) = 1 /\ result.value[1].size = 3

\* three founders who all list company X and institution Y, and nothing else
XYTrio ==
    /\ Len(founders) = 3
    /\ \A i \in DOMAIN founders :
          /\ founders[i].companies = <<Id1>>
          /\ founders[i].education = <<InstY>>
          /\ founders[i].work_history = <<>>
    /\ CompanyName(Id1) = NameX

\* C15: for three founders who all list company X and institution Y and
\* nothing else, every edge weighs 4.0 after build_graph, education_hubs(1)
\* returns Y with founder_count 3, and detect_clusters(3) returns one cluster,
\* of size 3, whose first dominant_context entity is X or Y.
C15_XYTrio ==
    XYTrio /\ builds >= 1 =>
        /\ \A a \in Ids, b \in Ids : a # b => EdgeWeight(a, b) = 8
        /\ IsHubs /\ result.arg = 1 =>
              result.value = <<[institution |-> InstY, founder_count |-> 3]>>
        /\ IsClusters /\ result.arg = 3 =>
              /\ ~result.raised
              /\ Len(result.value) = 1
              /\ result.value[1].size = 3
              /\ result.value[1].dominant_context # <<>>
              /\ result.value[1].dominant_context[1].entity \in {NameX, InstY}

C15_Witness ==
    /\ XYTrio /\ builds >= 1 /\ IsClusters /\ result.arg = 3
    /\ Len(result.value) = 1 /\ result.value[1].size = 3
    /\ result.value[1].dominant_context[1].count = 3

----------------------------------------------------------------------------
(* Claims about generate_insights *)

\* the last query was generate_insights, on the graph as it is now
IsInsights == result.op = "generate_insights" /\ result.builds = builds

\* the place of a category in the order of generation
GenerationRank(category) ==
    CASE category = "education_hub" -> 1
      [] category = "employer_pipeline" -> 2
      [] category = "bridge_founder" -> 3
      [] category = "cluster" -> 4
      [] category = "talent_flow" -> 5

\* C16: the insights come sorted by score descending, and insights of equal
\* score come in the order of generation: hubs, pipelines, bridge founders,
\* clusters, flows.
C16_InsightsSorted ==
    IsInsights =>
        \A j \in DOMAIN result.value, k \in DOMAIN result.value :
            j < k =>
                /\ result.value[j].score >= result.value[k].score
                /\ result.value[j].score = result.value[k].score =>
                      GenerationRank(result.value[j].category)
                          <= GenerationRank(result.value[k].category)

\* two insights of different categories tie, behind an insight of higher score
C16_Witness ==
    /\ IsInsights /\ Len(result.value) >= 3
    /\ \E j \in DOMAIN result.value :
          /\ j >= 2 /\ j < Len(result.value)
          /\ result.value[j].score = result.value[j + 1].score
          /\ result.value[j].category # result.value[j + 1].category
          /\ result.value[1].score > result.value[j].score

\* the count education_hubs (employer_pipelines) keeps for a name
CountOf(counter, name) == IF name \in Keys(counter) THEN counter[IndexOf(counter, name)][2] ELSE 0

\* the centrality, in units of 0.0001, of the founder called name
CentralityOfName(name) ==
    LET fid == founders[CHOOSE i \in DOMAIN founders : founders[i].name = name].id
        b == Betweenness(graph, fid)
        n == Len(graph.nodes)
    IN  IF n <= 2 THEN RoundDiv(b[1] * CentralityUnits, b[2])
        ELSE RoundDiv(2 * b[1] * CentralityUnits, b[2] * (n - 1) * (n - 2))

\* C17: every insight has the score of its category: founder_count for a hub,
\* founder_count x 1.5 for a pipeline, centrality x 100 for a bridge founder,
\* size x 2 for a cluster, contributor count x 2.5 for a flow (scores in
\* units of 0.01, counts as education_hubs and employer_pipelines report them).
C17_CategoryScores ==
    IsInsights =>
        \A j \in DOMAIN result.value :
            LET i == result.value[j]
            IN  /\ i.category = "education_hub" =>
                      i.score = 100 * CountOf(education_counter, i.entities[1])
                /\ i.category = "employer_pipeline" =>
                      i.score = 150 * CountOf(employer_counter, i.entities[1])
                /\ i.category = "bridge_founder" =>
                      i.score = CentralityOfName(i.entities[1])
                /\ i.category = "cluster" => i.score = 200 * Len(i.entities)
                /\ i.category = "talent_flow" => i.score = 250 * Len(i.entities)

C17_Witness ==
    /\ IsInsights
    /\ \E j \in DOMAIN result.value :
          result.value[j].category = "talent_flow" /\ result.value[j].score = 500
    /\ \E j \in DOMAIN result.value :
          result.value[j].category = "employer_pipeline" /\ result.value[j].score = 450
    /\ \E j \in DOMAIN result.value : result.value[j].category = "cluster"

HasInsight(category, name) ==
    \E j \in DOMAIN result.value :
        result.value[j].category = category /\ result.value[j].entities = <<name>>

\* C18: an education_hub insight is there for an institution, and an
\* employer_pipeline insight for an employer, exactly when its founder_count
\* (as education_hubs and employer_pipelines count it) is at least 3.
C18_InsightIffThreshold ==
    IsInsights /\ ~result.raised =>
        /\ \A x \in Keys(education_counter) :
              HasInsight("education_hub", x) <=> CountOf(education_counter, x) >= 3
        /\ \A x \in Keys(employer_counter) :
              HasInsight("employer_pipeline", x) <=> CountOf(employer_counter, x) >= 3

\* the names that rank before x: a larger count, or the same count and first
\* encountered earlier
RankedBefore(counter, x) ==
    {y \in Keys(counter) :
        \/ CountOf(counter, y) > CountOf(counter, x)
        \/ CountOf(counter, y) = CountOf(counter, x) /\ IndexOf(counter, y) < IndexOf(counter, x)}

\* C18 (amended): the insight is there exactly when the founder_count is at
\* least 3 and fewer than 10 names rank before this one.
C18_InsightIffThresholdInTopTen ==
    IsInsights /\ ~result.raised =>
        /\ \A x \in Keys(education_counter) :
              HasInsight("education_hub", x) <=>
                  /\ CountOf(education_counter, x) >= 3
                  /\ Cardinality(RankedBefore(education_counter, x)) < 10
        /\ \A x \in Keys(employer_counter) :
              HasInsight("employer_pipeline", x) <=>
                  /\ CountOf(employer_counter, x) >= 3
                  /\ Cardinality(RankedBefore(employer_counter, x)) < 10

\* eleven institutions reach the threshold, ten of them have an insight
C18_Witness ==
    /\ IsInsights /\ ~result.raised
    /\ Cardinality({x \in Keys(education_counter) : CountOf(education_counter, x) >= 3}) > 10
    /\ Cardinality({j \in DOMAIN result.value : result.value[j].category = "education_hub"}) = 10

\* C19: after build_graph no query raises, whatever the graph.
C19_QueriesDoNotRaise ==
    builds >= 1 /\ result.op # "none" /\ result.builds = builds => ~result.raised

\* generate_insights on zero founders
C19_Witness ==
    /\ builds >= 1 /\ founders = <<>> /\ IsInsights
    /\ ~result.raised /\ result.value = <<>>

----------------------------------------------------------------------------
(* Claims about the nodes of the graph *)

NothingShared ==
    \A a \in Ids, b \in Ids :
        a # b => /\ SharedCompanies(a, b) = {}
                 /\ SharedInstitutions(a, b) = {}
                 /\ SharedEmployers(a, b) = {}

\* C20: after build_graph the nodes are exactly the founder ids, and when no
\* two founders share a company, institution or employer the graph has one
\* node per founder and no edge.
C20_NodesAndNoEdges ==
    builds >= 1 =>
        /\ Range(graph.nodes) = Ids
        /\ Len(graph.nodes) = Len(founders)
        /\ NothingShared => DOMAIN graph.adj = {}


----------------------------------------------------------------------------
(* Claims about company ids that no Company record carries *)

\* the NetworkEdge records of the pair {a, b}
RecordsOf(a, b) ==
    {k \in DOMAIN edges : {edges[k].source_id, edges[k].target_id} = {a, b}}

\* C21: founders who list a company id that is not in the company collection
\* still get their co-founder edge, the raw id is the context of the edge and
\* of its NetworkEdge record, and founder_to_company_flow (which does not
\* raise) reports the raw id as to_company.
C21_DanglingCompanyId ==
    /\ builds >= 1 =>
          \A a \in Ids, b \in Ids : \A cid \in SharedCompanies(a, b) :
              (a # b /\ ~HasCompany(cid)) =>
                  /\ HasEdge(graph, a, b)
                  /\ graph.adj[{a, b}].rel = "co_founder"
                  /\ SharedCompanies(a, b) = {cid} => graph.adj[{a, b}].ctx = cid
                  /\ \E k \in RecordsOf(a, b) :
                        edges[k].relationship = "co_founder" /\ edges[k].context = cid
    /\ IsFlow =>
          /\ ~result.raised
          /\ \A p \in FlowPairs :
                \A cid \in UNION {Range(founders[i].companies) : i \in DOMAIN founders} :
                    ( /\ ~HasCompany(cid)
                      /\ p[2] = cid
                      /\ Cardinality(FlowContributors(p[1], cid)) >= 2 )
                    => \E j \in DOMAIN result.value :
                          /\ result.value[j].from_employer = p[1]
                          /\ result.value[j].to_company = cid

C21_Witness ==
    /\ builds >= 1
    /\ IsFlow
    /\ ~HasCompany(Id2)
    /\ \E a \in Ids, b \in Ids :
          a # b /\ SharedCompanies(a, b) = {Id2} /\ HasEdge(graph, a, b)
    /\ \E j \in DOMAIN result.value : result.value[j].to_company = Id2

----------------------------------------------------------------------------
(* Claims about what the queries leave alone *)

\* C22: a step that is not build_graph (education_hubs, employer_pipelines,
\* centrality_rankings, detect_clusters, founder_to_company_flow,
\* generate_insights) changes neither the graph (nodes, edges, weights and
\* labels), nor the edge list, nor the founder and company indexes.
C22_QueriesLeaveStateAlone ==
    [][builds' = builds =>
          /\ graph' = graph
          /\ edges' = edges
          /\ founders' = founders
          /\ companies' = companies]_vars

\* a query has answered on a graph that has edges, a self-loop among them
C22_Witness ==
    /\ builds >= 1
    /\ result.op \in {"detect_clusters", "generate_insights"}
    /\ result.builds = builds
    /\ edges # <<>>
    /\ \E a \in Ids, b \in Ids : a # b /\ HasEdge(graph, a, b) /\ HasEdge(graph, a, a)

----------------------------------------------------------------------------
(* Claims about the order of the input *)

ListsTwice(fid) ==
    \E i \in DOMAIN FounderOf(fid).companies, j \in DOMAIN FounderOf(fid).companies :
        i # j /\ FounderOf(fid).companies[i] = FounderOf(fid).companies[j]

\* what the shared institutions and employers add to a pair
SharedWeight(a, b) ==
    2 * Cardinality(SharedInstitutions(a, b)) + 3 * Cardinality(SharedEmployers(a, b))

\* The weight of {a, b} after n calls of build_graph, from the founder
\* records taken as a set: the position of a record in the founder list or
\* the company list does not enter.
WeightOfRecords(a, b, n) ==
    IF a = b THEN (IF ListsTwice(a) THEN 6 ELSE 0)
    ELSE IF SharedCompanies(a, b) # {} THEN 6 + SharedWeight(a, b)
    ELSE n * SharedWeight(a, b)

\* C23: the edges of the built graph and their weights are determined by the
\* founder records and the company records as sets: whatever order the
\* founder list and the company list are given in, the pair {a, b} has the
\* same weight, and an edge exactly when that weight is not 0.
C23_OrderOfInput ==
    builds >= 1 =>
        \A a \in Ids, b \in Ids :
            /\ EdgeWeight(a, b) = WeightOfRecords(a, b, builds)
            /\ HasEdge(graph, a, b) <=> WeightOfRecords(a, b, builds) > 0

\* the founder list is given in another order than f1, f2, f3, the company
\* list in another order than 1, 2, and a group of three founders was paired
C23_Witness ==
    /\ builds = 1
    /\ founders[1].id = "f3" /\ founders[2].id = "f1"
    /\ companies[1].id = Id2
    /\ \A a \in Ids, b \in Ids : a # b => Id1 \in SharedCompanies(a, b) /\ HasEdge(graph, a, b)
    /\ EdgeWeight("f1", "f2") = 11

----------------------------------------------------------------------------
(* Claims about repeated records *)

\* the list names the same entity (after trimming) in two records
HasRepeat(s) == \E i \in DOMAIN s, j \in DOMAIN s : i # j /\ Strip(s[i]) = Strip(s[j])

RepeatsARecord(fid) ==
    HasRepeat(FounderOf(fid).education) \/ HasRepeat(FounderOf(fid).work_history)

\* the NetworkEdge records of the pair {a, b} with this kind and context
RecordsFor(a, b, rel, context) ==
    {k \in RecordsOf(a, b) : edges[k].relationship = rel /\ edges[k].context = context}

\* C24: a founder who lists the same institution or employer in several
\* records is paired once per group: the weights of the founder's edges are
\* those of the records without the repeats, each call of build_graph appends
\* one NetworkEdge per shared institution or employer, and the founder gets
\* no edge to itself from the repeats.
C24_RepeatedRecordsPairedOnce ==
    builds >= 1 =>
        \A a \in Ids : RepeatsARecord(a) =>
            /\ ~ListsTwice(a) => ~HasEdge(graph, a, a)
            /\ \A b \in Ids \ {a} :
                  /\ EdgeWeight(a, b) = WeightOfRecords(a, b, builds)
                  /\ \A inst \in SharedInstitutions(a, b) :
                        Cardinality(RecordsFor(a, b, "same_college", inst)) = builds
                  /\ \A emp \in SharedEmployers(a, b) :
                        Cardinality(RecordsFor(a, b, "same_employer", emp)) = builds

\* a founder with a repeated record shares the repeated entity with another
C24_Witness ==
    /\ builds = 1
    /\ \E a \in Ids, b \in Ids :
          /\ a # b
          /\ \/ HasRepeat(FounderOf(a).education) /\ SharedInstitutions(a, b) # {}
                /\ EdgeWeight(a, b) = 8
             \/ HasRepeat(FounderOf(a).work_history) /\ SharedEmployers(a, b) # {}
                /\ EdgeWeight(a, b) = 3

----------------------------------------------------------------------------
(* Claims about the labels of co-founder edges *)

\* C25: the context on a graph edge the co-founder rule created is the
\* display name of a company the two founders share (the id when no Company
\* record carries it), and a co-founder NetworkEdge of the pair has the same
\* context.
C25_GraphContextIsDisplayName ==
    builds >= 1 =>
        \A a \in Ids, b \in Ids :
            (a # b /\ SharedCompanies(a, b) # {}) =>
                LET e == graph.adj[{a, b}]
                IN  /\ e.rel = "co_founder"
                    /\ \E cid \in SharedCompanies(a, b) : e.ctx = CompanyName(cid)
                    /\ RecordsFor(a, b, "co_founder", e.ctx) # {}

----------------------------------------------------------------------------
(* Claims about dominant_context *)

\* C26: the dominant_context of every cluster has at most 3 entries, their
\* counts do not increase, and no entry is an excluded name: a string that is
\* empty after trimming, or the placeholder.
C26_DominantContext ==
    IsClusters =>
        \A j \in DOMAIN result.value :
            LET dc == result.value[j].dominant_context
            IN  /\ Len(dc) <= 3
                /\ \A k \in 1..(Len(dc) - 1) : dc[k].count >= dc[k + 1].count
                /\ \A k \in DOMAIN dc : Strip(dc[k].entity) \notin {<<>>, EmDash}

----------------------------------------------------------------------------
(* Claims about the employers of the flows *)

\* C27: no entry of founder_to_company_flow has a from_employer that is empty
\* after trimming or that is the placeholder.
C27_FlowEmployerNotExcluded ==
    IsFlow => \A j \in DOMAIN result.value :
                  Strip(result.value[j].from_employer) \notin {<<>>, EmDash}

----------------------------------------------------------------------------
(* Claims about the graph and the edge list together *)

\* the sum of the weights of the NetworkEdge records of the pair {a, b}
RecordWeightSum(a, b) ==
    LET recs == SelectSeq(edges, LAMBDA r : {r.source_id, r.target_id} = {a, b})
    IN  SumSeq([k \in DOMAIN recs |-> recs[k].weight])

\* C28: after one call of build_graph the weight of every pair in the graph
\* is the sum of the weights of the pair's NetworkEdge records, and the pair
\* has a graph edge exactly when it has a record.
C28_GraphAgreesWithEdgeList ==
    builds = 1 =>
        \A a \in Ids, b \in Ids :
            /\ EdgeWeight(a, b) = RecordWeightSum(a, b)
            /\ HasEdge(graph, a, b) <=> RecordsOf(a, b) # {}

----------------------------------------------------------------------------
(* Claims about TracxnClient *)

Retryable(outcome) ==
    outcome.kind = "exception" \/ (outcome.kind = "response" /\ outcome.status = TooManyRequests)

C30_Paginate ==
    pag.pc \in {"running", "returned", "raised"} =>
        /\ pag.offset = pag.from + pag.received
        /\ pag.pages * MAX_PER_PAGE < pag.limit + MAX_PER_PAGE
        /\ pag.pages > 0 =>
              /\ 1 <= pag.size /\ pag.size <= MAX_PER_PAGE
              /\ pag.asked = pag.from + (pag.received - pag.got)
        /\ pag.pc = "running" =>
              /\ pag.received < pag.limit
              /\ pag.pages > 0 => pag.got >= pag.size /\ pag.got > 0
        /\ pag.pc = "returned" =>
              /\ pag.returned <= pag.limit
              /\ pag.returned <= pag.received
              /\ pag.returned = pag.limit \/ pag.returned = pag.received
              /\ pag.pages = 0 \/ pag.got < pag.size \/ pag.received >= pag.limit

\* two full pages and a last one that completes the limit
C30_Witness ==
    /\ pag.pc = "returned"
    /\ pag.limit = MaxLimit /\ pag.from = 7
    /\ pag.pages = 3
    /\ pag.asked = 7 + 2 * MAX_PER_PAGE
    /\ pag.returned = MaxLimit
====
